---- MODULE Spec2Model ----
(***************************************************************************)
(* Model of streamlit_appy.py, the single-page review tool.                *)
(*                                                                         *)
(* The script is re-executed from its first line on every user             *)
(* interaction.  One action of the model is one interaction followed by    *)
(* the complete script run it triggers (and the second run started by      *)
(* st.rerun(), where the script calls it).  The variables are the keys of  *)
(* st.session_state, the widget values the runtime keeps under their       *)
(* keys, the objects in the bucket and the set of controls the last run    *)
(* rendered.                                                               *)
(*                                                                         *)
(* Runtime rules the script relies on, as the model states them:           *)
(*  - a keyed widget reads its value from st.session_state[key]; a widget  *)
(*    registered for the first time stores its default there;              *)
(*  - st.radio with a key whose session value is None shows no selection;  *)
(*  - when a run ends normally (also by st.stop() or st.rerun()) the       *)
(*    values of widgets that were not rendered in that run are dropped;    *)
(*    a run ended by an uncaught exception keeps them;                     *)
(*  - a widget without a key (the selectbox) is re-created whenever one of *)
(*    its arguments (here index=) changes, and then shows its default.     *)
(***************************************************************************)
EXTENDS Integers, Sequences, FiniteSets, TLC

(***************************************************************************)
(* Bounds of the model.                                                    *)
(***************************************************************************)
MaxSteps == 7      \* interactions in one session
MaxChars == 3      \* characters of a text given character by character
MaxWords == 3      \* words of a text given word by word

(***************************************************************************)
(* Python values: a key that is missing, None, or a value.                 *)
(***************************************************************************)
Absent == [t |-> "absent"]
None == [t |-> "None"]
Val(x) == [t |-> "val", v |-> x]
IsVal(o) == o.t = "val"

\* bool() of an optional list / an optional string
TruthyList(o) == IsVal(o) /\ Len(o.v) > 0
TruthyStr(o) == IsVal(o) /\ o.v # ""

\* dict helpers
EmptyMap == [k \in {} |-> FALSE]
Put(f, k, x) == [y \in (DOMAIN f) \cup {k} |-> IF y = k THEN x ELSE f[y]]
Restrict(f, D) == [y \in (DOMAIN f) \cap D |-> f[y]]
Get(f, k, d) == IF k \in DOMAIN f THEN f[k] ELSE d

Min(a, b) == IF a <= b THEN a ELSE b

\* list.index(x): position (from 1) of the first element equal to x
IndexOf(seq, x) == CHOOSE i \in 1..Len(seq) : seq[i] = x /\ \A j \in 1..(i - 1) : seq[j] # x

\* str.startswith(p) on strings written as sequences of characters
StartsWith(k, p) == Len(k) >= Len(p) /\ SubSeq(k, 1, Len(p)) = p

\* str.strip(): a text is a sequence over {" ", "x"}
RECURSIVE LStrip(_)
LStrip(s) == IF s # <<>> /\ Head(s) = " " THEN LStrip(Tail(s)) ELSE s
RECURSIVE RStrip(_)
RStrip(s) == IF s # <<>> /\ s[Len(s)] = " " THEN RStrip(SubSeq(s, 1, Len(s) - 1)) ELSE s
Strip(s) == RStrip(LStrip(s))

\* what the user types under "Please specify other issue:" and "Section to write to:"
OtherTexts == {<<>>, <<" ">>, <<" ", "x">>}
SectionTexts == {<<>>, <<"x">>}

(***************************************************************************)
(* Uploaded files.  A uid is a string, written as a sequence of            *)
(* characters, so that selection[:8] is a real prefix.                     *)
(***************************************************************************)
UidA1 == <<"a", "a", "a", "a", "a", "a", "a", "a", "1">>
UidA2 == <<"a", "a", "a", "a", "a", "a", "a", "a", "2">>
UidB == <<"b">>
\* a JSON array given as "uid": a value no dict can use as a key
UidList == <<"[", "]">>
\* what uuid.uuid4() may return
UUIDs == {<<"7", "f", "3", "e", "9", "a", "0", "c", "-", "1">>, <<"c", "4", "1", "d", "2", "2", "b", "8", "-", "2">>}

Item(uid, entity) == [uid |-> uid, entity_id |-> entity]

\* kind: what json.load() meets; items: the entry objects, in file order.
\* number.json holds 5; string.json holds "", the empty JSON string.
FileContent(f) ==
    CASE f = "broken.json" -> [kind |-> "invalid", items |-> <<>>]
      [] f = "number.json" -> [kind |-> "scalar", items |-> <<>>]
      [] f = "string.json" -> [kind |-> "string", items |-> <<>>]
      [] f = "listuid.json" -> [kind |-> "array", items |-> <<Item(Val(UidList), "Cat")>>]
      [] f = "empty.json" -> [kind |-> "array", items |-> <<>>]
      [] f = "one.json" -> [kind |-> "object", items |-> <<Item(Absent, "Dog")>>]
      [] f = "three.json" -> [kind |-> "array",
                              items |-> <<Item(Val(UidA1), "Dog"), Item(Val(UidA2), "Cat"), Item(Val(UidB), "Emu")>>]
Files == {"broken.json", "number.json", "string.json", "listuid.json", "empty.json", "one.json", "three.json"}

\* the uuid4() results one load may draw: one per entry without a uid, all different
UuidDraws(f) ==
    LET items == FileContent(f).items
        missing == {i \in 1..Len(items) : ~IsVal(items[i].uid)}
    IN  {g \in [missing -> UUIDs] : \A i, j \in missing : i # j => g[i] # g[j]}

\* lines 50-53: list(raw.values()) or raw, then setdefault('uid', str(uuid4()))
EntriesOf(items, gen) ==
    [i \in 1..Len(items) |->
        [uid |-> IF IsVal(items[i].uid) THEN items[i].uid.v ELSE gen[i],
         entity_id |-> items[i].entity_id,
         review |-> Absent]]

\* lines 44-53; exc names the exception that leaves the function, "" when it returns
LoadContent(c, gen) ==
    CASE c.kind = "invalid" -> [exc |-> "JSONDecodeError", entries |-> <<>>]
      [] c.kind = "scalar" -> [exc |-> "TypeError", entries |-> <<>>]
      \* enumerate("") has nothing to visit: the empty string is returned as the
      \* entry list; the model writes this empty sequence as <<>>
      [] c.kind = "string" -> [exc |-> "", entries |-> <<>>]
      [] OTHER -> [exc |-> "", entries |-> EntriesOf(c.items, gen)]

load_entries_from_file(f, gen) == LoadContent(FileContent(f), gen)

\* a value Python can hash (a dict key)
Hashable(uid) == uid # UidList

(***************************************************************************)
(* Names of the session keys, as strings.                                  *)
(***************************************************************************)
K_q1 == <<"q", "1">>
K_q2 == <<"q", "2">>
K_q3 == <<"q", "3">>
K_q3_section == <<"q", "3", "_", "s", "e", "c", "t", "i", "o", "n">>
K_review_submitted == <<"r", "e", "v", "i", "e", "w", "_", "s", "u", "b", "m", "i", "t", "t", "e", "d">>
P_q == <<"q">>
P_claims == <<"c", "l", "a", "i", "m", "s", "_">>
P_q2_ == <<"q", "2", "_">>

PrefixLen == 8

\* q1_key_prefix = f"q1_{selection[:8]}"
q1_key_prefix(selection) == <<"q", "1", "_">> \o SubSeq(selection, 1, Min(PrefixLen, Len(selection)))
\* full_key = f"{q1_key_prefix}_{subkey}"; the subkey is kept as one token
full_key(selection, subkey) == q1_key_prefix(selection) \o <<"_", subkey>>
\* other_input_key = f"{q1_key_prefix}_other_text"
other_input_key(selection) == q1_key_prefix(selection) \o <<"_", "other_text">>

\* q1_options: subkey and label (the label is cut after its category name)
q1_options ==
    << [subkey |-> "style", label |-> "Stylistic/clarity"],
       [subkey |-> "minor_fix", label |-> "Minor factual fix"],
       [subkey |-> "formatting", label |-> "Wikipedia Formatting"],
       [subkey |-> "citation", label |-> "Missing citation(s)"],
       [subkey |-> "subjective", label |-> "Subjective"],
       [subkey |-> "duplicate", label |-> "Duplicate"],
       [subkey |-> "insignificant", label |-> "Insignificant"],
       [subkey |-> "irrelevant", label |-> "Irrelevant"],
       [subkey |-> "policy", label |-> "Policy violation"],
       [subkey |-> "other", label |-> "Other:"] >>
Subkeys == {q1_options[i].subkey : i \in 1..Len(q1_options)}
\* the checkboxes the user toggles in the model
Clickable == {"style", "other"}

Q2Choices == {"Accept", "Accept w/ Revision", "Reject"}
Q3Yes == "Yes"
Q3No == "If No, which section:"
Q3Choices == {Q3Yes, Q3No}

(***************************************************************************)
(* The program state as one record, so that the script is a function of    *)
(* it.  The fields are the variables declared below.                       *)
(*   entries_by_uid maps a uid to the position in entries of the entry     *)
(*   object it refers to: the dict and the list share the objects.         *)
(*   review_submitted = FALSE stands for the key being absent.             *)
(***************************************************************************)
\* the dict's keys: the uids in order of first occurrence
RECURSIVE KeysInOrder(_, _)
KeysInOrder(es, acc) ==
    IF es = <<>> THEN acc
    ELSE KeysInOrder(Tail(es),
                     IF \E i \in 1..Len(acc) : acc[i] = Head(es).uid THEN acc ELSE Append(acc, Head(es).uid))

\* {e['uid']: e for e in entries}: a later entry with the same uid replaces the earlier
DictByUid(es) ==
    [u \in {es[i].uid : i \in 1..Len(es)} |->
        CHOOSE i \in 1..Len(es) : es[i].uid = u /\ \A j \in (i + 1)..Len(es) : es[j].uid # u]

\* lines 76-80 without lines 78-79: the selection stays what it was
StoreEntries_noCurrent(s, es, ks) ==
    [s EXCEPT !.entries = es,
              !.entries_by_uid = DictByUid(es),
              !.uids = ks,
              !.file_processed = TRUE]

\* lines 76-80, for a list whose uids can all be dict keys
StoreEntries(s, es, ks) ==
    [s EXCEPT !.entries = es,
              !.entries_by_uid = DictByUid(es),
              !.uids = ks,
              !.current_uid = IF ks # <<>> THEN Val(ks[1]) ELSE @,
              !.file_processed = TRUE]

\* lines 75-88, given what load_entries_from_file did
AfterLoad(s, r) ==
    IF r.exc # ""
    THEN [s |-> [s EXCEPT !.file_processed = FALSE], rerun |-> FALSE]
    ELSE IF \E i \in 1..Len(r.entries) : ~Hashable(r.entries[i].uid)
    THEN [s |-> [s EXCEPT !.entries = r.entries, !.file_processed = FALSE], rerun |-> FALSE]
    ELSE [s |-> StoreEntries(s, r.entries, KeysInOrder(r.entries, <<>>)), rerun |-> TRUE]

\* lines 66-88 without the test of file_processed: the file in the uploader is loaded
\* in every run (with some uuid4() draws where the run brings none)
FileUpload_always(s, gen) ==
    IF IsVal(s.uploaded_file)
    THEN AfterLoad(s, load_entries_from_file(s.uploaded_file.v,
                         IF gen \in UuidDraws(s.uploaded_file.v) THEN gen
                         ELSE CHOOSE g \in UuidDraws(s.uploaded_file.v) : TRUE))
    ELSE [s |-> s, rerun |-> FALSE]

\* lines 66-88: the upload branch; rerun says st.rerun() was called
FileUpload(s, gen) ==
    IF IsVal(s.uploaded_file) /\ ~s.file_processed
    THEN AfterLoad(s, load_entries_from_file(s.uploaded_file.v, gen))
    ELSE [s |-> s, rerun |-> FALSE]

\* lines 92 and 103: the two st.stop() gates
Blocked(s) ==
    \/ ~s.file_processed
    \/ s.entries = <<>>
    \/ s.uids = <<>>
    \/ s.current_uid = None

\* del st.session_state[key] for every key the test Del selects
DelKeys(s, Del(_)) ==
    [s EXCEPT !.q1 = IF Del(K_q1) THEN Absent ELSE @,
              !.q2 = IF Del(K_q2) THEN Absent ELSE @,
              !.q3 = IF Del(K_q3) THEN Absent ELSE @,
              !.q3_section = IF Del(K_q3_section) THEN Absent ELSE @,
              !.review_submitted = IF Del(K_review_submitted) THEN FALSE ELSE @,
              !.chk = Restrict(@, {k \in DOMAIN @ : ~Del(k)}),
              !.other_text = Restrict(@, {k \in DOMAIN @ : ~Del(k)})]

\* line 123 with the 'q' prefix forgotten: the answers outlive the selection
SelectionResets_noQ(k) ==
    StartsWith(k, P_claims) \/ StartsWith(k, K_review_submitted)

\* line 123 with 'review_submitted' forgotten: the flag outlives the selection
SelectionResets_keepFlag(k) ==
    StartsWith(k, P_q) \/ StartsWith(k, P_claims)

\* line 123: key.startswith(('q', 'claims_', 'review_submitted'))
SelectionResets(k) ==
    StartsWith(k, P_q) \/ StartsWith(k, P_claims) \/ StartsWith(k, K_review_submitted)

\* lines 121-126
ResetOnChange(s, new_selection) ==
    [DelKeys(s, SelectionResets) EXCEPT !.current_uid = Val(new_selection)]

\* lines 195-196: setdefault('q1', None), setdefault('q3', None)
InitQuestionStates(s) ==
    [s EXCEPT !.q1 = IF @ = Absent THEN None ELSE @,
              !.q3 = IF @ = Absent THEN None ELSE @]

\* the label appended for a non-empty other text (line 239)
OtherLabel(text) == <<"Other (Please specify reason below): ">> \o Strip(text)

\* line 100 and 126: the selection the page is rendered for
Selection(s) == s.current_uid.v

\* line 227: every checkbox is registered under its key, unticked when new
RegisterBoxes(chk0, selection) ==
    [k \in (DOMAIN chk0) \cup {full_key(selection, sk) : sk \in Subkeys} |-> Get(chk0, k, FALSE)]

\* lines 230-231
show_other_text(s) == s.chk[full_key(Selection(s), "other")]

\* line 237: the text input is registered under its key, empty when new
RegisterOther(texts, key) == IF key \in DOMAIN texts THEN texts ELSE Put(texts, key, <<>>)

\* lines 225-229: the labels of the ticked boxes, in the order of q1_options
Labels(picked) == [i \in 1..Len(picked) |-> <<picked[i].label>>]
CheckedLabels(s) ==
    Labels(SelectSeq(q1_options, LAMBDA o : s.chk[full_key(Selection(s), o.subkey)]))

\* lines 235-239
WithOther(selected, shows, text) ==
    IF shows /\ Strip(text) # <<>> THEN Append(selected, OtherLabel(text)) ELSE selected

selected_q1_options(s) ==
    WithOther(CheckedLabels(s), show_other_text(s),
              Get(s.other_text, other_input_key(Selection(s)), <<>>))

\* line 242
StoreQ1(s, selected) ==
    [s EXCEPT !.q1 = IF selected # <<>> THEN Val(selected) ELSE None]

\* lines 236-237
OtherInput(s) ==
    IF show_other_text(s)
    THEN [s EXCEPT !.other_text = RegisterOther(@, other_input_key(Selection(s)))]
    ELSE s

\* lines 223-242: the checkboxes, the other-text input and the q1 list
Q1Store(s) == StoreQ1(s, selected_q1_options(s))
Q1Block(s) == Q1Store(OtherInput([s EXCEPT !.chk = RegisterBoxes(@, Selection(s))]))

\* line 280
ShowQ2(s) == TruthyList(s.q1)

\* lines 280-282: st.radio(..., key='q2', index=None)
Q2Block(s) ==
    IF ShowQ2(s) THEN [s EXCEPT !.q2 = IF @ = Absent THEN None ELSE @] ELSE s

\* line 287 testing the issue list alone
ShowQ3_q1only(s) == TruthyList(s.q1)

\* line 287 testing the decision alone
ShowQ3_q2only(s) == TruthyStr(s.q2)

\* line 287
ShowQ3(s) == TruthyList(s.q1) /\ TruthyStr(s.q2)

\* lines 288-291: st.radio(..., key='q3') and the section input
Q3Block(s) ==
    [s EXCEPT !.q3_section = IF s.q3 = Val(Q3No) /\ @ = Absent THEN Val(<<>>) ELSE @]

\* line 320: f"test/{selection}.json"
BlobPath(selection) == <<"test/">> \o selection \o <<".json">>

\* lines 294-299
BuildReview(s) ==
    [q1 |-> s.q1,
     q2 |-> s.q2,
     q3 |-> s.q3,
     q3_section |-> IF s.q3_section = Absent THEN None ELSE s.q3_section]

\* line 129: the entry object the selection refers to
EntryIndex(s) == s.entries_by_uid[Selection(s)]

\* line 307: entry['review'] = review
AttachReview(s) == [s EXCEPT !.entries[EntryIndex(s)].review = Val(BuildReview(s))]

\* line 320 naming the blob after the first uid instead of the selection
Upload_from_file_firstPath(s, upload_ok) ==
    IF upload_ok
    THEN [s |-> [s EXCEPT !.sink_calls = @ + 1,
                          !.bucket = Put(@, BlobPath(s.uids[1]), s.entries[EntryIndex(s)])],
          raised |-> FALSE]
    ELSE [s |-> [s EXCEPT !.sink_calls = @ + 1], raised |-> TRUE]

\* lines 314-321: the entry is serialised and sent; the call may throw
Upload_from_file(s, upload_ok) ==
    IF upload_ok
    THEN [s |-> [s EXCEPT !.sink_calls = @ + 1,
                          !.bucket = Put(@, BlobPath(Selection(s)), s.entries[EntryIndex(s)])],
          raised |-> FALSE]
    ELSE [s |-> [s EXCEPT !.sink_calls = @ + 1], raised |-> TRUE]

\* line 323 moved in front of the upload: the flag is set whatever the upload does
MarkSubmitted_always(up) == [up EXCEPT !.s.review_submitted = TRUE]

\* lines 322-323, reached when the upload returned
MarkSubmitted(up) ==
    IF up.raised THEN up ELSE [up EXCEPT !.s.review_submitted = TRUE]

\* lines 293-323: raised says upload_from_file threw
SubmitReview(s, upload_ok) == MarkSubmitted(Upload_from_file(AttachReview(s), upload_ok))

\* line 327 without the wrap: the last entry is followed by itself
next_idx_nowrap(s) == Min((IndexOf(s.uids, Selection(s)) - 1) + 1, Len(s.uids) - 1)

\* line 327, counted from 0 as the code does
next_idx(s) == ((IndexOf(s.uids, Selection(s)) - 1) + 1) % Len(s.uids)
\* line 328
next_uid(s) == s.uids[next_idx(s) + 1]

\* lines 336-339
GoNextResets(k) ==
    StartsWith(k, P_q2_) \/ StartsWith(k, K_q3) \/ StartsWith(k, K_review_submitted) \/ k = K_q1

\* lines 333-341
GoToNextEntry(s) ==
    [DelKeys(s, GoNextResets) EXCEPT !.current_uid = Val(next_uid(s))]

\* the end of a run with the section input kept although it was not rendered
RemoveStale_keepSection(s, rendered, keys) ==
    [s EXCEPT !.chk = Restrict(@, keys),
              !.other_text = Restrict(@, keys),
              !.q2 = IF "q2" \in rendered THEN @ ELSE Absent,
              !.q3 = IF "q3" \in rendered \/ @ = Absent THEN @ ELSE None]

\* end of a run that was not cut by an exception: widgets that were not rendered lose
\* their values; q3 was also set by setdefault, so the key stays and reads None
RemoveStale(s, rendered, keys) ==
    [s EXCEPT !.chk = Restrict(@, keys),
              !.other_text = Restrict(@, keys),
              !.q2 = IF "q2" \in rendered THEN @ ELSE Absent,
              !.q3 = IF "q3" \in rendered \/ @ = Absent THEN @ ELSE None,
              !.q3_section = IF "q3_section" \in rendered THEN @ ELSE Absent]

Finish(s, rendered, keys) == [RemoveStale(s, rendered, keys) EXCEPT !.shown = rendered]

\* the keys of the Q1 widgets a run renders
Q1Keys(s) ==
    {full_key(Selection(s), sk) : sk \in Subkeys}
        \cup (IF show_other_text(s) THEN {other_input_key(Selection(s))} ELSE {})

\* the controls rendered down to line 282
UpToQ2(s) ==
    {"uploader", "select_entry", "q1_boxes"}
        \cup (IF show_other_text(s) THEN {"other_text"} ELSE {})
        \cup (IF ShowQ2(s) THEN {"q2"} ELSE {})

\* the controls rendered down to line 292
UpToSubmit(s) ==
    UpToQ2(s) \cup {"q3", "submit_review"} \cup (IF s.q3 = Val(Q3No) THEN {"q3_section"} ELSE {})

\* what one interaction carries into the run
NoEvent == [new_selection |-> None, submitted |-> FALSE, upload_ok |-> TRUE,
            go_next |-> FALSE, stay |-> FALSE]

\* lines 325-345: the next-step buttons
NextStep(s, ev) ==
    IF ~s.review_submitted
    THEN [s |-> Finish(s, UpToSubmit(s), Q1Keys(s)), rerun |-> FALSE]
    ELSE IF ev.go_next
    THEN [s |-> Finish(GoToNextEntry(s), UpToSubmit(s) \cup {"go_next"}, Q1Keys(s)), rerun |-> TRUE]
    ELSE [s |-> Finish(s, UpToSubmit(s) \cup {"go_next", "stay"}, Q1Keys(s)), rerun |-> FALSE]

\* an exception of the upload ends the run where it is: nothing is dropped
AfterSubmit(sub, ev) ==
    IF sub.raised
    THEN [s |-> [sub.s EXCEPT !.shown = UpToSubmit(sub.s)], rerun |-> FALSE]
    ELSE NextStep(sub.s, ev)

\* lines 292-345
SubmitStep(s, ev) ==
    IF ev.submitted THEN AfterSubmit(SubmitReview(s, ev.upload_ok), ev) ELSE NextStep(s, ev)

\* lines 286-345
Q3AndSubmit(s, ev) ==
    IF ShowQ3(s)
    THEN SubmitStep(Q3Block(s), ev)
    ELSE [s |-> Finish(s, UpToQ2(s), Q1Keys(s)), rerun |-> FALSE]

\* lines 107-126: the selectbox returns the current entry unless the user picked another
SidebarSelect(s, ev) ==
    IF IsVal(ev.new_selection) /\ ev.new_selection # s.current_uid
    THEN ResetOnChange(s, ev.new_selection.v)
    ELSE s

\* lines 96-345: the page below the gates
FormRun(s, ev) ==
    Q3AndSubmit(Q2Block(Q1Block(InitQuestionStates(SidebarSelect(s, ev)))), ev)

\* st.rerun(): the script starts again, with no new widget event
Rerun(r) == IF r.rerun THEN FormRun(r.s, NoEvent).s ELSE r.s

\* the script below the upload branch
Page(s, ev) ==
    IF Blocked(s) THEN Finish(s, {"uploader"}, {}) ELSE Rerun(FormRun(s, ev))

\* the script after the upload branch; st.rerun() at line 82 ends the run there
AfterUpload(up, ev) ==
    IF up.rerun THEN Page(Finish(up.s, {"uploader"}, {}), NoEvent) ELSE Page(up.s, ev)

\* one interaction: the whole script
Script(s, ev, gen) == AfterUpload(FileUpload([s EXCEPT !.sink_calls = 0], gen), ev)

(***************************************************************************)
(* The diff of lines 165-180.  A text is a sequence of characters; " " is  *)
(* the whitespace character.  A word is a non-empty text without " ".      *)
(* The markers <del>, </del>, <ins>, </ins> are written as one symbol      *)
(* each; no input text contains them.                                      *)
(***************************************************************************)
\* str.split(): the maximal runs of non-whitespace characters
RECURSIVE SplitFrom(_, _, _)
SplitFrom(s, word, words) ==
    IF s = <<>>
    THEN (IF word = <<>> THEN words ELSE Append(words, word))
    ELSE IF Head(s) = " "
    THEN SplitFrom(Tail(s), <<>>, IF word = <<>> THEN words ELSE Append(words, word))
    ELSE SplitFrom(Tail(s), Append(word, Head(s)), words)
split(s) == SplitFrom(s, <<>>, <<>>)

\* ' '.join(tokens)
RECURSIVE join(_)
join(tokens) ==
    IF tokens = <<>> THEN <<>>
    ELSE IF Len(tokens) = 1 THEN tokens[1]
    ELSE tokens[1] \o <<" ">> \o join(Tail(tokens))

\* seq[lo:hi], counted from 0
Slice(seq, lo, hi) == SubSeq(seq, lo + 1, hi)

\* SequenceMatcher(None, a, b) with no junk: the blocks a[i:i+k] == b[j:j+k] inside
\* a[alo:ahi] and b[blo:bhi], as triples <<i, j, k>>
MatchesIn(a, b, alo, ahi, blo, bhi) ==
    {m \in (alo..(ahi - 1)) \X (blo..(bhi - 1)) \X (1..(ahi - alo)) :
        /\ m[1] + m[3] <= ahi
        /\ m[2] + m[3] <= bhi
        /\ \A d \in 1..m[3] : a[m[1] + d] = b[m[2] + d]}

\* the order find_longest_match prefers blocks in: longest, then earliest in a, then
\* earliest in b
Preferred(m, n) ==
    \/ m[3] > n[3]
    \/ m[3] = n[3] /\ m[1] < n[1]
    \/ m[3] = n[3] /\ m[1] = n[1] /\ m[2] <= n[2]

LongestOf(M, alo, blo) ==
    IF M = {} THEN <<alo, blo, 0>> ELSE CHOOSE m \in M : \A n \in M : Preferred(m, n)

\* SequenceMatcher.find_longest_match(alo, ahi, blo, bhi)
find_longest_match(a, b, alo, ahi, blo, bhi) ==
    LongestOf(MatchesIn(a, b, alo, ahi, blo, bhi), alo, blo)

\* SequenceMatcher.get_matching_blocks(), before the merge: the longest block, then the
\* same to its left and to its right; in the sorted order of the code
RECURSIVE BlocksIn(_, _, _, _, _, _)
BlocksAround(a, b, alo, ahi, blo, bhi, m) ==
    IF m[3] = 0 THEN <<>>
    ELSE (IF alo < m[1] /\ blo < m[2] THEN BlocksIn(a, b, alo, m[1], blo, m[2]) ELSE <<>>)
         \o <<m>>
         \o (IF m[1] + m[3] < ahi /\ m[2] + m[3] < bhi
             THEN BlocksIn(a, b, m[1] + m[3], ahi, m[2] + m[3], bhi) ELSE <<>>)
BlocksIn(a, b, alo, ahi, blo, bhi) ==
    BlocksAround(a, b, alo, ahi, blo, bhi, find_longest_match(a, b, alo, ahi, blo, bhi))

\* the merge of adjacent blocks; cur is the block being grown
RECURSIVE NonAdjacent(_, _, _)
NonAdjacent(blocks, cur, acc) ==
    IF blocks = <<>>
    THEN (IF cur[3] > 0 THEN Append(acc, cur) ELSE acc)
    ELSE IF cur[1] + cur[3] = Head(blocks)[1] /\ cur[2] + cur[3] = Head(blocks)[2]
    THEN NonAdjacent(Tail(blocks), <<cur[1], cur[2], cur[3] + Head(blocks)[3]>>, acc)
    ELSE NonAdjacent(Tail(blocks), Head(blocks), IF cur[3] > 0 THEN Append(acc, cur) ELSE acc)

\* SequenceMatcher.get_matching_blocks(): the last block is the sentinel <<la, lb, 0>>
get_matching_blocks(a, b) ==
    Append(NonAdjacent(BlocksIn(a, b, 0, Len(a), 0, Len(b)), <<0, 0, 0>>, <<>>), <<Len(a), Len(b), 0>>)

Opcode(tag, i1, i2, j1, j2) == [tag |-> tag, i1 |-> i1, i2 |-> i2, j1 |-> j1, j2 |-> j2]

\* the opcode for what lies between the position <<i, j>> and the block at <<ai, bj>>
WithGap(acc, i, j, ai, bj) ==
    IF i < ai /\ j < bj THEN Append(acc, Opcode("replace", i, ai, j, bj))
    ELSE IF i < ai THEN Append(acc, Opcode("delete", i, ai, j, bj))
    ELSE IF j < bj THEN Append(acc, Opcode("insert", i, ai, j, bj))
    ELSE acc

\* the opcode of the block itself; the sentinel gives none
WithEqual(acc, ai, bj, size) ==
    IF size > 0 THEN Append(acc, Opcode("equal", ai, ai + size, bj, bj + size)) ELSE acc

RECURSIVE OpcodesFrom(_, _, _, _)
OpcodesFrom(blocks, i, j, acc) ==
    IF blocks = <<>> THEN acc
    ELSE OpcodesFrom(Tail(blocks),
                     Head(blocks)[1] + Head(blocks)[3],
                     Head(blocks)[2] + Head(blocks)[3],
                     WithEqual(WithGap(acc, i, j, Head(blocks)[1], Head(blocks)[2]),
                               Head(blocks)[1], Head(blocks)[2], Head(blocks)[3]))

\* SequenceMatcher.get_opcodes()
get_opcodes(a, b) == OpcodesFrom(get_matching_blocks(a, b), 0, 0, <<>>)

\* f"<del>{' '.join(words)}</del>" and f"<ins>{' '.join(words)}</ins>"
DelToken(words) == <<"<del>">> \o join(words) \o <<"</del>">>
InsToken(words) == <<"<ins>">> \o join(words) \o <<"</ins>">>

\* lines 170-179 with the words of a replaced range left out of the first output
TokensA_dropReplaced(op, a_words) ==
    CASE op.tag = "equal" -> Slice(a_words, op.i1, op.i2)
      [] op.tag = "delete" -> <<DelToken(Slice(a_words, op.i1, op.i2))>>
      [] OTHER -> <<>>

\* lines 170-179 with the equal words marked as removed in the first output
TokensA_markEqual(op, a_words) ==
    CASE op.tag \in {"equal", "delete", "replace"} -> <<DelToken(Slice(a_words, op.i1, op.i2))>>
      [] OTHER -> <<>>

\* lines 170-179: what one opcode adds to a_hl
TokensA(op, a_words) ==
    CASE op.tag = "equal" -> Slice(a_words, op.i1, op.i2)
      [] op.tag \in {"delete", "replace"} -> <<DelToken(Slice(a_words, op.i1, op.i2))>>
      [] OTHER -> <<>>

\* lines 170-179 with an insert that adds nothing to the second output
TokensB_noInsert(op, b_words) ==
    CASE op.tag = "equal" -> Slice(b_words, op.j1, op.j2)
      [] op.tag = "replace" -> <<InsToken(Slice(b_words, op.j1, op.j2))>>
      [] OTHER -> <<>>

\* lines 170-179: what one opcode adds to b_hl
TokensB(op, b_words) ==
    CASE op.tag = "equal" -> Slice(b_words, op.j1, op.j2)
      [] op.tag \in {"insert", "replace"} -> <<InsToken(Slice(b_words, op.j1, op.j2))>>
      [] OTHER -> <<>>

\* the loop of line 169
RECURSIVE HlA(_, _)
HlA(ops, a_words) == IF ops = <<>> THEN <<>> ELSE TokensA(Head(ops), a_words) \o HlA(Tail(ops), a_words)
RECURSIVE HlB(_, _)
HlB(ops, b_words) == IF ops = <<>> THEN <<>> ELSE TokensB(Head(ops), b_words) \o HlB(Tail(ops), b_words)

Highlighted(a_words, b_words, ops) == <<join(HlA(ops, a_words)), join(HlB(ops, b_words))>>
HighlightWords(a_words, b_words) == Highlighted(a_words, b_words, get_opcodes(a_words, b_words))

\* lines 165-180
get_text_diff_v2_highlight(a, b) == HighlightWords(split(a), split(b))

(***************************************************************************)
(* The texts the diff is studied on.                                       *)
(***************************************************************************)
Chars == {" ", "a", "b"}
Words == {<<"a">>, <<"b">>, <<"c">>}
TheDogIsLoyal ==
    <<"T", "h", "e", " ", "d", "o", "g", " ", "i", "s", " ", "l", "o", "y", "a", "l">>
TheDogIsVeryLoyalAndFriendly ==
    <<"T", "h", "e", " ", "d", "o", "g", " ", "i", "s", " ", "v", "e", "r", "y", " ",
      "l", "o", "y", "a", "l", " ", "a", "n", "d", " ",
      "f", "r", "i", "e", "n", "d", "l", "y">>
DiffTexts ==
    UNION {[1..n -> Chars] : n \in 0..MaxChars}
        \cup {join(ws) : ws \in UNION {[1..n -> Words] : n \in 0..MaxWords}}
        \cup {TheDogIsLoyal, TheDogIsVeryLoyalAndFriendly}

(***************************************************************************)
(* State.                                                                  *)
(***************************************************************************)
VARIABLES
    entries, entries_by_uid, uids, current_uid, file_processed,   \* lines 56-61
    uploaded_file,      \* the file the uploader widget holds (line 64)
    q1, q2, q3, q3_section, review_submitted,                     \* session keys of the form
    chk,                \* checkbox values by key (line 227)
    other_text,         \* other-text values by key (line 237)
    bucket,             \* the objects in the bucket, by path (line 320)
    shown,              \* the controls the last run rendered
    lastAction,         \* history: the kind of interaction that led here
    okSince,            \* history: uid whose upload succeeded since the entry was selected
    erred,              \* history: a load or an upload has failed, or a load was empty
    sink_calls,         \* calls of upload_from_file the last run made
    steps,              \* history: interactions so far
    orig, upd,          \* the two texts of the entry on the page (lines 183-184)
    a_hl, b_hl          \* the two marked texts on the page (line 185)

sessionVars == <<entries, entries_by_uid, uids, current_uid, file_processed, uploaded_file,
                 q1, q2, q3, q3_section, review_submitted, chk, other_text, bucket, shown,
                 sink_calls, lastAction, okSince, erred, steps>>
diffVars == <<orig, upd, a_hl, b_hl>>
vars == <<sessionVars, diffVars>>

Cur ==
    [entries |-> entries, entries_by_uid |-> entries_by_uid, uids |-> uids,
     current_uid |-> current_uid, file_processed |-> file_processed,
     uploaded_file |-> uploaded_file, q1 |-> q1, q2 |-> q2, q3 |-> q3,
     q3_section |-> q3_section, review_submitted |-> review_submitted,
     chk |-> chk, other_text |-> other_text, bucket |-> bucket, shown |-> shown,
     sink_calls |-> sink_calls]

Apply(r) ==
    /\ entries' = r.entries
    /\ entries_by_uid' = r.entries_by_uid
    /\ uids' = r.uids
    /\ current_uid' = r.current_uid
    /\ file_processed' = r.file_processed
    /\ uploaded_file' = r.uploaded_file
    /\ q1' = r.q1
    /\ q2' = r.q2
    /\ q3' = r.q3
    /\ q3_section' = r.q3_section
    /\ review_submitted' = r.review_submitted
    /\ chk' = r.chk
    /\ other_text' = r.other_text
    /\ bucket' = r.bucket
    /\ shown' = r.shown
    /\ sink_calls' = r.sink_calls
    /\ UNCHANGED diffVars

\* lines 56-61, and the first run of the script with no file in the uploader
SessionInit ==
    /\ entries = <<>>
    /\ entries_by_uid = EmptyMap
    /\ uids = <<>>
    /\ current_uid = None
    /\ file_processed = FALSE
    /\ uploaded_file = None
    /\ q1 = Absent
    /\ q2 = Absent
    /\ q3 = Absent
    /\ q3_section = Absent
    /\ review_submitted = FALSE
    /\ chk = EmptyMap
    /\ other_text = EmptyMap
    /\ bucket = EmptyMap
    /\ shown = {"uploader"}
    /\ lastAction = "start"
    /\ okSince = None
    /\ erred = FALSE
    /\ sink_calls = 0
    /\ steps = 0

\* the entries of the files above carry no section texts (lines 183-184 read ''); the
\* diff is studied on its own under DiffSpec
Init ==
    /\ SessionInit
    /\ orig = <<>>
    /\ upd = <<>>
    /\ a_hl = None
    /\ b_hl = None

\* the load of file f ends in one of the error kinds of the upload branch
LoadFails(f) ==
    \/ FileContent(f).kind \in {"invalid", "scalar"}
    \/ \E i \in 1..Len(FileContent(f).items) : FileContent(f).items[i].uid = Val(UidList)
    \/ FileContent(f).items = <<>>

(***************************************************************************)
(* The interactions.  Each is the widget change and the run it triggers.   *)
(***************************************************************************)
\* a file is put into the uploader (line 64)
Upload(f, gen) ==
    /\ steps < MaxSteps
    /\ uploaded_file # Val(f)
    /\ Apply(Script([Cur EXCEPT !.uploaded_file = Val(f)], NoEvent, gen))
    /\ lastAction' = "upload"
    /\ okSince' = IF file_processed THEN okSince ELSE None
    /\ erred' = (erred \/ (~file_processed /\ LoadFails(f)))
    /\ steps' = steps + 1

\* a Q1 checkbox is ticked or unticked (line 227)
ToggleBox(sk) ==
    /\ steps < MaxSteps
    /\ "q1_boxes" \in shown
    /\ LET k == full_key(current_uid.v, sk)
       IN  Apply(Script([Cur EXCEPT !.chk = Put(@, k, ~Get(@, k, FALSE))], NoEvent, <<>>))
    /\ lastAction' = "answer"
    /\ steps' = steps + 1
    /\ UNCHANGED <<okSince, erred>>

\* the other-text input is edited (line 237)
TypeOther(t) ==
    /\ steps < MaxSteps
    /\ "other_text" \in shown
    /\ LET k == other_input_key(current_uid.v)
       IN  /\ Get(other_text, k, <<>>) # t
           /\ Apply(Script([Cur EXCEPT !.other_text = Put(@, k, t)], NoEvent, <<>>))
    /\ lastAction' = "answer"
    /\ steps' = steps + 1
    /\ UNCHANGED <<okSince, erred>>

\* a decision is chosen (line 282)
ChooseQ2(c) ==
    /\ steps < MaxSteps
    /\ "q2" \in shown
    /\ q2 # Val(c)
    /\ Apply(Script([Cur EXCEPT !.q2 = Val(c)], NoEvent, <<>>))
    /\ lastAction' = "answer"
    /\ steps' = steps + 1
    /\ UNCHANGED <<okSince, erred>>

\* a placement judgment is chosen (line 289)
ChooseQ3(c) ==
    /\ steps < MaxSteps
    /\ "q3" \in shown
    /\ q3 # Val(c)
    /\ Apply(Script([Cur EXCEPT !.q3 = Val(c)], NoEvent, <<>>))
    /\ lastAction' = "answer"
    /\ steps' = steps + 1
    /\ UNCHANGED <<okSince, erred>>

\* the target section is edited (line 291)
TypeSection(t) ==
    /\ steps < MaxSteps
    /\ "q3_section" \in shown
    /\ q3_section # Val(t)
    /\ Apply(Script([Cur EXCEPT !.q3_section = Val(t)], NoEvent, <<>>))
    /\ lastAction' = "answer"
    /\ steps' = steps + 1
    /\ UNCHANGED <<okSince, erred>>

\* Submit Review is clicked (line 292); ok is whether upload_from_file returns
ClickSubmit(ok) ==
    /\ "submit_review" \in shown
    /\ steps < MaxSteps
    /\ Apply(Script(Cur, [NoEvent EXCEPT !.submitted = TRUE, !.upload_ok = ok], <<>>))
    /\ lastAction' = IF ok THEN "submit_ok" ELSE "submit_fail"
    /\ okSince' = IF ok THEN current_uid ELSE okSince
    /\ erred' = (erred \/ ~ok)
    /\ steps' = steps + 1

\* Go to Next Entry is clicked (line 333)
ClickGoNext ==
    /\ steps < MaxSteps
    /\ "go_next" \in shown
    /\ Apply(Script(Cur, [NoEvent EXCEPT !.go_next = TRUE], <<>>))
    /\ lastAction' = "go_next"
    /\ okSince' = None
    /\ steps' = steps + 1
    /\ UNCHANGED erred

\* Stay on This Entry is clicked (line 344)
ClickStay ==
    /\ steps < MaxSteps
    /\ "stay" \in shown
    /\ Apply(Script(Cur, [NoEvent EXCEPT !.stay = TRUE], <<>>))
    /\ lastAction' = "stay"
    /\ steps' = steps + 1
    /\ UNCHANGED <<okSince, erred>>

\* another entry is picked in the sidebar (line 110)
SelectEntry(u) ==
    /\ steps < MaxSteps
    /\ "select_entry" \in shown
    /\ current_uid # Val(u)
    /\ Apply(Script(Cur, [NoEvent EXCEPT !.new_selection = Val(u)], <<>>))
    /\ lastAction' = "select"
    /\ okSince' = None
    /\ steps' = steps + 1
    /\ UNCHANGED erred

\* Files are put into the uploader until the form shows; from then on the upload
\* branch of the script is skipped (file_processed), whatever the uploader holds.
Next ==
    \/ \E f \in Files : \E gen \in UuidDraws(f) : "select_entry" \notin shown /\ Upload(f, gen)
    \/ \E sk \in Clickable : ToggleBox(sk)
    \/ \E t \in OtherTexts : TypeOther(t)
    \/ \E c \in Q2Choices : ChooseQ2(c)
    \/ \E c \in Q3Choices : ChooseQ3(c)
    \/ \E t \in SectionTexts : TypeSection(t)
    \/ \E ok \in BOOLEAN : ClickSubmit(ok)
    \/ ClickGoNext
    \/ ClickStay
    \/ \E i \in 1..Len(uids) : SelectEntry(uids[i])

Spec == Init /\ [][Next]_vars

(***************************************************************************)
(* The session with the uploader used at any time: a file may replace the  *)
(* one in the uploader also while the review form is shown.                *)
(***************************************************************************)
\* the files tried over the form: a malformed one and one with an entry
LaterFiles == {"broken.json", "one.json"}

\* another file is put into the uploader while the form is on the page
UploadOverForm(f, gen) == "select_entry" \in shown /\ Upload(f, gen)

NextAnyUpload ==
    \/ Next
    \/ \E f \in LaterFiles : \E gen \in UuidDraws(f) : UploadOverForm(f, gen)

AnyUploadSpec == Init /\ [][NextAnyUpload]_vars

(***************************************************************************)
(* The diff on its own: a page is rendered for an entry with the texts     *)
(* orig and upd.                                                           *)
(***************************************************************************)
DiffInit ==
    /\ SessionInit
    /\ orig \in DiffTexts
    /\ upd \in DiffTexts
    /\ a_hl = None
    /\ b_hl = None

\* line 185: a_hl, b_hl = get_text_diff_v2_highlight(orig, upd)
ShowDiff ==
    /\ a_hl = None
    /\ a_hl' = Val(get_text_diff_v2_highlight(orig, upd)[1])
    /\ b_hl' = Val(get_text_diff_v2_highlight(orig, upd)[2])
    /\ UNCHANGED <<sessionVars, orig, upd>>

DiffNext == ShowDiff

DiffSpec == DiffInit /\ [][DiffNext]_vars

(***************************************************************************)
(* Vocabulary of the claims.                                               *)
(***************************************************************************)
\* the review form is on the page
FormShown == "select_entry" \in shown

\* no Q1 checkbox holds a tick
NoBoxTicked == \A k \in DOMAIN chk : ~chk[k]

\* only the "other" box of the current entry is ticked
OnlyOtherTicked ==
    /\ full_key(current_uid.v, "other") \in DOMAIN chk
    /\ \A sk \in Subkeys : chk[full_key(current_uid.v, sk)] <=> (sk = "other")

\* the form state Unanswered, as a first visit of an entry shows it
Fresh ==
    /\ q1 = None
    /\ q2 = Absent
    /\ q3 = None
    /\ q3_section = Absent
    /\ ~review_submitted
    /\ NoBoxTicked
    /\ DOMAIN other_text = {}

\* the files whose load gives a non-empty collection
ValidFiles == {f \in Files : ~LoadFails(f)}

\* the session holds exactly the entries of file f, none reviewed yet or since
HoldsFile(f) ==
    /\ Len(entries) = Len(FileContent(f).items)
    /\ \A i \in 1..Len(entries) :
          /\ entries[i].entity_id = FileContent(f).items[i].entity_id
          /\ IsVal(FileContent(f).items[i].uid) => entries[i].uid = FileContent(f).items[i].uid.v

(***************************************************************************)
(* C1.  Submit Review is exposed only if q1, q2 and q3 are all set, so no  *)
(* review attached to an entry carries q3 unset.                           *)
(* The code exposes the button as soon as q1 and q2 are set (line 287)     *)
(* while q3 is still None (line 196): TLC refutes the statement.           *)
(***************************************************************************)
C1_SubmitNeedsAllThree ==
    /\ "submit_review" \in shown => TruthyList(q1) /\ TruthyStr(q2) /\ IsVal(q3)
    /\ \A i \in 1..Len(entries) :
          entries[i].review # Absent => IsVal(entries[i].review.v.q3)

(***************************************************************************)
(* C2.  Q2 is exposed only while q1 is non-empty, Q3 only while q1 is      *)
(* non-empty and q2 is chosen; with every box unticked the form is         *)
(* Unanswered and Q2, Q3 and Submit are hidden.                            *)
(***************************************************************************)
C2_Gating ==
    /\ "q2" \in shown => TruthyList(q1)
    /\ "q3" \in shown => TruthyList(q1) /\ TruthyStr(q2)
    /\ FormShown /\ NoBoxTicked =>
          /\ q1 = None
          /\ shown \cap {"other_text", "q2", "q3", "q3_section", "submit_review", "go_next"} = {}

\* the last answer change unticked the last box
C2_Witness == lastAction = "answer" /\ FormShown /\ NoBoxTicked /\ q1 = None

(***************************************************************************)
(* C3.  With only the "other" box ticked and an other-text that is empty   *)
(* after trimming, q1 is empty and Q2 is not exposed.                      *)
(* The code appends the label of every ticked box, "Other:" included       *)
(* (lines 228-229): TLC refutes the statement.                             *)
(***************************************************************************)
C3_OtherNeedsText ==
    (FormShown /\ OnlyOtherTicked
        /\ Strip(Get(other_text, other_input_key(current_uid.v), <<>>)) = <<>>)
    => (q1 = None /\ "q2" \notin shown)

(***************************************************************************)
(* C4.  Right after Go to Next Entry the form of the new current entry is  *)
(* a fresh Unanswered state, for every collection size and also for uids   *)
(* with a common 8-character prefix.                                       *)
(* The handler deletes neither the checkbox keys nor q2 (lines 336-339):   *)
(* TLC refutes the statement.                                              *)
(***************************************************************************)
C4_NextIsFresh == lastAction = "go_next" => Fresh

(***************************************************************************)
(* C5.  Picking another entry in the sidebar makes it the current entry    *)
(* and discards every transient form field, submitted or not; the entry    *)
(* collection is left as it was.                                           *)
(***************************************************************************)
C5_SelectResets ==
    [][\A i \in 1..Len(uids) :
          SelectEntry(uids[i]) =>
              /\ current_uid' = Val(uids[i])
              /\ Fresh'
              /\ entries' = entries
              /\ entries_by_uid' = entries_by_uid
              /\ uids' = uids]_vars

\* an entry was picked after a review had been uploaded
C5_Witness == lastAction = "select" /\ DOMAIN bucket # {} /\ Fresh

(***************************************************************************)
(* C6.  Go to Next Entry is exposed only after an upload for the current   *)
(* uid has succeeded since that entry was selected; the flag of one entry  *)
(* never serves another.                                                   *)
(***************************************************************************)
C6_NextOnlyAfterSubmit ==
    /\ "go_next" \in shown => review_submitted
    /\ review_submitted => okSince = current_uid

C6_Witness == "go_next" \in shown /\ Len(uids) > 1 /\ current_uid # Val(uids[1])

(***************************************************************************)
(* C7.  From index k of N uids, Go to Next Entry moves to index k+1 when   *)
(* another uid follows, and to the first uid from the last one.            *)
(***************************************************************************)
C7_NextIndex ==
    [][lastAction' = "go_next" =>
          LET k == IndexOf(uids, current_uid.v)
          IN  /\ uids' = uids
              /\ k < Len(uids) => current_uid' = Val(uids[k + 1])
              /\ k = Len(uids) => current_uid' = Val(uids[1])]_vars

\* the advance from the last of three uids wrapped to the first
C7_Witness ==
    /\ lastAction = "go_next"
    /\ Len(uids) = 3
    /\ current_uid = Val(uids[1])
    /\ BlobPath(uids[3]) \in DOMAIN bucket

(***************************************************************************)
(* C8.  A submit whose upload fails does not mark the form submitted and   *)
(* does not expose Go to Next Entry; the answers stay as they were; the    *)
(* upload is tried once per click, and Submit Review stays available for   *)
(* another try.                                                            *)
(***************************************************************************)
C8_FailedUploadKeepsForm ==
    [][/\ lastAction' = "submit_fail" =>
             /\ review_submitted' = review_submitted
             /\ "go_next" \notin shown'
             /\ q1' = q1 /\ q2' = q2 /\ q3' = q3 /\ q3_section' = q3_section
             /\ chk' = chk /\ other_text' = other_text
             /\ "submit_review" \in shown'
       /\ lastAction' \in {"submit_fail", "submit_ok"} => sink_calls' = 1
       /\ lastAction' \notin {"submit_fail", "submit_ok"} => sink_calls' = 0]_vars

\* a first submit failed: the form is not marked and can be submitted again
C8_Witness ==
    /\ lastAction = "submit_fail"
    /\ ~review_submitted
    /\ DOMAIN bucket = {}
    /\ "submit_review" \in shown

(***************************************************************************)
(* C9.  An entry loaded without a review has none until an upload of that  *)
(* entry has succeeded.                                                    *)
(* The code attaches the review before it uploads (line 307 before 321):   *)
(* TLC refutes the statement.                                              *)
(***************************************************************************)
C9_ReviewOnlyAfterUpload ==
    \A i \in 1..Len(entries) :
        entries[i].review # Absent => BlobPath(entries[i].uid) \in DOMAIN bucket

(***************************************************************************)
(* C10.  After a malformed file, an empty dataset or a failed upload, a    *)
(* later upload of a valid non-empty file still loads its entries and      *)
(* makes the review form reachable.                                        *)
(* Once a load has returned, file_processed stays TRUE and the upload      *)
(* branch is skipped (lines 66, 80): TLC refutes the statement.            *)
(***************************************************************************)
C10_ReuploadRecovers ==
    [][\A f \in ValidFiles :
          (erred /\ lastAction' = "upload" /\ uploaded_file' = Val(f) /\ uploaded_file # Val(f))
          => (file_processed' /\ FormShown' /\ HoldsFile(f)')]_vars

(***************************************************************************)
(* C11.  The upload of a malformed file (no JSON, or JSON that is neither  *)
(* an array nor an object) builds no entry collection and leaves entries,  *)
(* entries_by_uid, uids and current_uid as they were; file_processed is    *)
(* false afterwards and the review form is not shown.                      *)
(* A file holding the JSON string "" is loaded as an empty collection and  *)
(* file_processed becomes true (lines 50-51, 80): TLC refutes the          *)
(* statement.                                                              *)
(***************************************************************************)
MalformedFiles == {f \in Files : FileContent(f).kind \in {"invalid", "scalar", "string"}}

C11_MalformedKeepsState ==
    [][\A f \in MalformedFiles :
          (lastAction' = "upload" /\ uploaded_file' = Val(f) /\ uploaded_file # Val(f) /\ ~file_processed)
          => /\ entries' = entries
             /\ entries_by_uid' = entries_by_uid
             /\ uids' = uids
             /\ current_uid' = current_uid
             /\ ~file_processed'
             /\ ~FormShown']_vars

(***************************************************************************)
(* C12.  In every review attached to an entry or stored in the bucket,     *)
(* q3_section carries a value only if q3 is the "No" choice; a review      *)
(* submitted with q3 = Yes has none, also when No had been chosen and a    *)
(* section typed before.                                                   *)
(***************************************************************************)
SectionOnlyWithNo(review) == review.q3_section # None => review.q3 = Val(Q3No)

C12_SectionOnlyWithNo ==
    /\ \A i \in 1..Len(entries) :
          entries[i].review # Absent => SectionOnlyWithNo(entries[i].review.v)
    /\ \A p \in DOMAIN bucket :
          bucket[p].review # Absent => SectionOnlyWithNo(bucket[p].review.v)

\* a review with No and a section was stored; the entry was then submitted again with
\* Yes (the upload failed, so both reviews can be seen) and carries no section
C12_Witness ==
    /\ lastAction = "submit_fail"
    /\ \E i \in 1..Len(entries) :
          /\ entries[i].review # Absent
          /\ entries[i].review.v.q3 = Val(Q3Yes)
          /\ entries[i].review.v.q3_section = None
          /\ BlobPath(entries[i].uid) \in DOMAIN bucket
          /\ bucket[BlobPath(entries[i].uid)].review.v.q3 = Val(Q3No)
          /\ bucket[BlobPath(entries[i].uid)].review.v.q3_section # None

(***************************************************************************)
(* C13.  A successful submit for the current uid u stores, at path         *)
(* test/<u>.json, the whole in-memory entry u: its fields as loaded plus   *)
(* the review built from the answers at the click.  The entry is updated   *)
(* in place, an earlier object at that path is replaced, and no other      *)
(* path and no other entry is written.                                     *)
(***************************************************************************)
\* the review the answers on the page make up
AnswersReview ==
    [q1 |-> q1, q2 |-> q2, q3 |-> q3,
     q3_section |-> IF q3_section = Absent THEN None ELSE q3_section]

C13_StoredIsEntry ==
    [][lastAction' = "submit_ok" =>
          LET u == current_uid.v
              i == entries_by_uid[u]
          IN  /\ current_uid' = current_uid
              /\ entries' = [entries EXCEPT ![i].review = Val(AnswersReview)]
              /\ entries'[i].uid = u
              /\ bucket' = Put(bucket, BlobPath(u), entries'[i])]_vars

\* two entries were submitted one after the other: each path holds its own entry
C13_Witness ==
    /\ lastAction = "submit_ok"
    /\ Cardinality(DOMAIN bucket) = 2
    /\ \A i \in 1..Len(entries) :
          BlobPath(entries[i].uid) \in DOMAIN bucket => bucket[BlobPath(entries[i].uid)] = entries[i]

(***************************************************************************)
(* Vocabulary of the claims about the diff.                                *)
(***************************************************************************)
Markers == {"<del>", "</del>", "<ins>", "</ins>"}
HasMarker(text) == \E n \in 1..Len(text) : text[n] \in Markers
Unmark(text) == SelectSeq(text, LAMBDA c : c \notin Markers)

\* the diff of the page has been computed
Diffed == IsVal(a_hl) /\ IsVal(b_hl)

TheExample == orig = TheDogIsLoyal /\ upd = TheDogIsVeryLoyalAndFriendly

\* the opcode ranges go through [0, la) and through [0, lb) once, in order
Covers(ops, la, lb) ==
    /\ ops = <<>> => la = 0 /\ lb = 0
    /\ ops # <<>> =>
          /\ ops[1].i1 = 0 /\ ops[1].j1 = 0
          /\ ops[Len(ops)].i2 = la /\ ops[Len(ops)].j2 = lb
    /\ \A n \in 1..Len(ops) : ops[n].i1 <= ops[n].i2 /\ ops[n].j1 <= ops[n].j2
    /\ \A n \in 1..(Len(ops) - 1) : ops[n].i2 = ops[n + 1].i1 /\ ops[n].j2 = ops[n + 1].j1

C15_ExampleAsReplace ==
    (Diffed /\ TheExample) =>
        /\ a_hl.v = <<"T", "h", "e", " ", "d", "o", "g", " ", "i", "s", " ",
                      "<del>", "l", "o", "y", "a", "l", "</del>">>
        /\ b_hl.v = <<"T", "h", "e", " ", "d", "o", "g", " ", "i", "s", " ",
                      "<ins>", "v", "e", "r", "y", " ", "l", "o", "y", "a", "l", " ",
                      "a", "n", "d", " ", "f", "r", "i", "e", "n", "d", "l", "y", "</ins>">>

(***************************************************************************)
(* C15, amended.  For "The dog is loyal" and "The dog is very loyal and    *)
(* friendly" the diff returns "The dog is loyal", without a marker, and    *)
(* "The dog is <ins>very</ins> loyal <ins>and friendly</ins>"; the opcodes *)
(* are equal "The dog is", insert "very", equal "loyal", insert "and       *)
(* friendly".                                                              *)
(***************************************************************************)
C15_ExampleAsInserts ==
    (Diffed /\ TheExample) =>
        /\ a_hl.v = TheDogIsLoyal
        /\ b_hl.v = <<"T", "h", "e", " ", "d", "o", "g", " ", "i", "s", " ",
                      "<ins>", "v", "e", "r", "y", "</ins>", " ", "l", "o", "y", "a", "l", " ",
                      "<ins>", "a", "n", "d", " ", "f", "r", "i", "e", "n", "d", "l", "y", "</ins>">>
        /\ get_opcodes(split(orig), split(upd)) =
              <<Opcode("equal", 0, 3, 0, 3), Opcode("insert", 3, 3, 3, 4),
                Opcode("equal", 3, 4, 4, 5), Opcode("insert", 4, 4, 5, 7)>>

\* the diff of the example has been computed
C15_Witness == Diffed /\ TheExample /\ HasMarker(b_hl.v)

(***************************************************************************)
(* C16.  The opcode ranges cover the words of both texts once and in       *)
(* order: the first output without its markers is the words of the first   *)
(* text joined by single spaces, the second output without its markers     *)
(* the words of the second text.                                           *)
(***************************************************************************)
C16_OutputsCoverWords ==
    Diffed =>
        /\ Covers(get_opcodes(split(orig), split(upd)), Len(split(orig)), Len(split(upd)))
        /\ Unmark(a_hl.v) = join(split(orig))
        /\ Unmark(b_hl.v) = join(split(upd))

\* a diff of three opcodes or more, one of them a replace
C16_Witness ==
    /\ Diffed
    /\ Len(get_opcodes(split(orig), split(upd))) >= 3
    /\ \E n \in 1..Len(get_opcodes(split(orig), split(upd))) :
          get_opcodes(split(orig), split(upd))[n].tag = "replace"
    /\ HasMarker(a_hl.v) /\ HasMarker(b_hl.v)

(***************************************************************************)
(* C17.  Once a non-empty collection is loaded, no interaction, an upload  *)
(* of another file included, changes the uid list, the uid or a loaded     *)
(* field of an entry, or the number of entries; the only change to an      *)
(* entry is its review, set by a submit for the selected entry.            *)
(***************************************************************************)
Loaded == file_processed /\ entries # <<>>

C17_EntriesFrozen ==
    [][Loaded =>
          /\ Loaded'
          /\ uids' = uids
          /\ entries_by_uid' = entries_by_uid
          /\ Len(entries') = Len(entries)
          /\ \A i \in 1..Len(entries) :
                /\ entries'[i].uid = entries[i].uid
                /\ entries'[i].entity_id = entries[i].entity_id
                /\ entries'[i].review # entries[i].review =>
                      /\ lastAction' \in {"submit_ok", "submit_fail"}
                      /\ i = entries_by_uid[current_uid.v]
                      /\ entries'[i].review # Absent]_vars

\* another file was put into the uploader after a review had been attached
C17_Witness ==
    /\ lastAction = "upload"
    /\ Loaded
    /\ uploaded_file = Val("one.json")
    /\ Len(entries) = 3
    /\ \E i \in 1..Len(entries) : entries[i].review # Absent

(***************************************************************************)
(* C18.  Every review attached to an entry has a non-empty q1 list and a   *)
(* q2 that is one of the three decisions, whatever the answers were        *)
(* changed to between the first showing of Submit Review and the click.    *)
(***************************************************************************)
C18_ReviewHasQ1Q2 ==
    \A i \in 1..Len(entries) :
        entries[i].review # Absent =>
            /\ TruthyList(entries[i].review.v.q1)
            /\ IsVal(entries[i].review.v.q2)
            /\ entries[i].review.v.q2.v \in Q2Choices

\* the answers were changed after a first submit and submitted again (the upload
\* failed, so both reviews can be seen): the new review has the new q1 and q2
C18_Witness ==
    /\ lastAction = "submit_fail"
    /\ BlobPath(current_uid.v) \in DOMAIN bucket
    /\ bucket[BlobPath(current_uid.v)].review.v.q1 = Val(<< <<"Stylistic/clarity">> >>)
    /\ bucket[BlobPath(current_uid.v)].review.v.q2 = Val("Accept")
    /\ entries[entries_by_uid[current_uid.v]].review.v.q1 = Val(<< <<"Stylistic/clarity">>, <<"Other:">> >>)
    /\ entries[entries_by_uid[current_uid.v]].review.v.q2 = Val("Reject")

(***************************************************************************)
(* C19.  Whenever a file was processed and the collection is non-empty,    *)
(* current_uid is in the uid list and is a key of entries_by_uid, whose    *)
(* value is an entry with that uid.                                        *)
(***************************************************************************)
C19_CurrentUidResolves ==
    (file_processed /\ entries # <<>>) =>
        /\ IsVal(current_uid)
        /\ \E k \in 1..Len(uids) : uids[k] = current_uid.v
        /\ current_uid.v \in DOMAIN entries_by_uid
        /\ entries_by_uid[current_uid.v] \in 1..Len(entries)
        /\ entries[entries_by_uid[current_uid.v]].uid = current_uid.v

\* the third entry was reached by the sidebar or by Go to Next Entry, after a submit
C19_Witness ==
    /\ lastAction \in {"select", "go_next"}
    /\ Len(uids) = 3
    /\ current_uid = Val(uids[3])
    /\ DOMAIN bucket # {}
====
